---- MODULE Spec2Model ----
(***************************************************************************)
(* A model of the cell-tracker web application (src/app.py): the store of  *)
(* Leader and ServiceRecord rows, the profile-picture folder, the session  *)
(* flag, and one action per request handler.  Python strings are TLA+      *)
(* strings, Python dicts (JSON objects) are functions whose DOMAIN is the  *)
(* set of keys present, dates are [year, month, day] records and datetimes *)
(* are [date, sec, us] records.                                            *)
(***************************************************************************)
EXTENDS Integers, Sequences, FiniteSets, TLC

VARIABLES
    leaders,      \* the rows of table leader
    records,      \* the rows of table service_record
    files,        \* the file names present in UPLOAD_FOLDER
    logged_in,    \* session["logged_in"] of the browser session
    clock,        \* ticks of the wall clock since the model's first instant
    backup,       \* the last church_backup.json downloaded, or NoFile
    backupOf,     \* history: the store the downloaded backup was taken from
    last,         \* the last request served and its response
    requests      \* the submit_totals requests being served side by side

vars ==
    <<leaders, records, files, logged_in, clock, backup, backupOf, last,
      requests>>

store == [leaders |-> leaders, records |-> records]

(***************************************************************************)
(* Bounds of the model.                                                    *)
(***************************************************************************)
MaxLeaders == 1      \* create_leader is explored while fewer leaders exist
MaxRecords == 1      \* submit_totals is explored while fewer records exist
MaxClock == 1        \* ticks of the clock
MantissaBits == 3    \* significand width of the scaled-down binary float
MaxAnalyticsRecords == 3   \* records in a store the analytics are applied to

(***************************************************************************)
(* Python None / SQL NULL / JSON null in a string-typed position.          *)
(***************************************************************************)
None == "None"

SA_ZONES == <<"Chestnut", "KB South", "KB North">>

CELL_DAYS == <<"Monday", "Tuesday", "Wednesday", "Thursday", "Friday">>

ALLOWED_EXTENSIONS == {"png", "jpg", "jpeg", "gif"}

SeedCount == 30

(***************************************************************************)
(* Characters and numerals.                                                *)
(***************************************************************************)
Char(s, i) == SubSeq(s, i, i)

DigitChars == "0123456789"

IsDigit(c) == \E d \in 1..10 : Char(DigitChars, d) = c

DigitVal(c) == (CHOOSE d \in 1..10 : Char(DigitChars, d) = c) - 1

AllDigits(s) == Len(s) > 0 /\ \A i \in 1..Len(s) : IsDigit(Char(s, i))

RECURSIVE ParseNat(_)
ParseNat(s) ==
    IF Len(s) = 0 THEN 0
    ELSE 10 * ParseNat(SubSeq(s, 1, Len(s) - 1)) + DigitVal(Char(s, Len(s)))

RECURSIVE PadStr(_, _)
PadStr(s, w) == IF Len(s) >= w THEN s ELSE PadStr("0" \o s, w)

\* "%0<w>d" % n
Pad(n, w) == PadStr(ToString(n), w)

RECURSIVE Find(_, _, _)
\* the first index >= i at which character c occurs in s, or 0
Find(s, c, i) ==
    IF i > Len(s) THEN 0
    ELSE IF Char(s, i) = c THEN i ELSE Find(s, c, i + 1)

RECURSIVE RFind(_, _, _)
\* the last index <= i at which character c occurs in s, or 0
RFind(s, c, i) ==
    IF i < 1 THEN 0
    ELSE IF Char(s, i) = c THEN i ELSE RFind(s, c, i - 1)

UpperChars == "ABCDEFGHIJKLMNOPQRSTUVWXYZ"
LowerChars == "abcdefghijklmnopqrstuvwxyz"

LowerChar(c) ==
    IF \E k \in 1..26 : Char(UpperChars, k) = c
    THEN Char(LowerChars, CHOOSE k \in 1..26 : Char(UpperChars, k) = c)
    ELSE c

RECURSIVE Lower(_)
\* str.lower
Lower(s) ==
    IF Len(s) = 0 THEN ""
    ELSE LowerChar(Char(s, 1)) \o Lower(SubSeq(s, 2, Len(s)))

\* a suffix test that ignores case: what restore_data does not do
EndsWithIgnoringCase(s, suffix) ==
    /\ Len(s) >= Len(suffix)
    /\ Lower(SubSeq(s, Len(s) - Len(suffix) + 1, Len(s))) = Lower(suffix)

\* str.endswith
EndsWith(s, suffix) ==
    /\ Len(s) >= Len(suffix)
    /\ SubSeq(s, Len(s) - Len(suffix) + 1, Len(s)) = suffix

(***************************************************************************)
(* datetime.date and datetime.datetime.                                    *)
(***************************************************************************)
IsLeap(y) == y % 4 = 0 /\ (y % 100 # 0 \/ y % 400 = 0)

DaysInMonth(y, m) ==
    IF m = 2 THEN (IF IsLeap(y) THEN 29 ELSE 28)
    ELSE IF m \in {4, 6, 9, 11} THEN 30 ELSE 31

RECURSIVE DaysBeforeMonth(_, _)
DaysBeforeMonth(y, m) ==
    IF m = 1 THEN 0 ELSE DaysBeforeMonth(y, m - 1) + DaysInMonth(y, m - 1)

DaysBeforeYear(y) ==
    LET p == y - 1 IN p * 365 + (p \div 4) - (p \div 100) + (p \div 400)

\* date.toordinal: date comparison and timedelta arithmetic go through it
Ordinal(d) == DaysBeforeYear(d.year) + DaysBeforeMonth(d.year, d.month) + d.day

ValidDate(y, m, d) ==
    /\ y \in 1..9999
    /\ m \in 1..12
    /\ d >= 1 /\ d <= DaysInMonth(y, m)

\* date.isoformat() and strftime("%Y-%m-%d")
DateStr(d) == Pad(d.year, 4) \o "-" \o Pad(d.month, 2) \o "-" \o Pad(d.day, 2)

\* strftime("%Y-%m")
MonthStr(d) == Pad(d.year, 4) \o "-" \o Pad(d.month, 2)

\* the value of a one- or two-digit field of strptime (%m, %d), or 0 when the
\* text is not such a field
Field2(s) ==
    IF Len(s) \in 1..2 /\ AllDigits(s) THEN ParseNat(s) ELSE 0

\* the [y, m, d] that datetime.strptime(s, "%Y-%m-%d") reads, all 0 when the
\* text does not match the format
DateFields(s) ==
    LET dash2 == Find(s, "-", 6)
        shaped == /\ Len(s) >= 8
                  /\ AllDigits(SubSeq(s, 1, 4))
                  /\ Char(s, 5) = "-"
                  /\ dash2 > 6
                  /\ dash2 < Len(s)
    IN  IF shaped
        THEN [year |-> ParseNat(SubSeq(s, 1, 4)),
              month |-> Field2(SubSeq(s, 6, dash2 - 1)),
              day |-> Field2(SubSeq(s, dash2 + 1, Len(s)))]
        ELSE [year |-> 0, month |-> 0, day |-> 0]

\* whether datetime.strptime(s, "%Y-%m-%d") returns (it raises ValueError
\* otherwise)
CanParseDate(s) ==
    LET f == DateFields(s) IN ValidDate(f.year, f.month, f.day)

\* datetime.strptime(s, "%Y-%m-%d").date()
ParseDate(s) == DateFields(s)

TimeStr(sec) ==
    Pad(sec \div 3600, 2) \o ":" \o Pad((sec \div 60) % 60, 2) \o ":"
        \o Pad(sec % 60, 2)

\* datetime.isoformat(): the microseconds are written only when not zero
IsoFormat(t) ==
    DateStr(t.date) \o "T" \o TimeStr(t.sec)
        \o (IF t.us = 0 THEN "" ELSE "." \o Pad(t.us, 6))

\* the strict shape date.isoformat() writes: YYYY-MM-DD, zero padded
IsIsoDate(s) ==
    /\ Len(s) = 10
    /\ AllDigits(SubSeq(s, 1, 4)) /\ Char(s, 5) = "-"
    /\ AllDigits(SubSeq(s, 6, 7)) /\ Char(s, 8) = "-"
    /\ AllDigits(SubSeq(s, 9, 10))
    /\ CanParseDate(s)

IsIsoTime(s) ==
    /\ Len(s) \in {8, 15}
    /\ AllDigits(SubSeq(s, 1, 2)) /\ Char(s, 3) = ":"
    /\ AllDigits(SubSeq(s, 4, 5)) /\ Char(s, 6) = ":"
    /\ AllDigits(SubSeq(s, 7, 8))
    /\ ParseNat(SubSeq(s, 1, 2)) < 24
    /\ ParseNat(SubSeq(s, 4, 5)) < 60
    /\ ParseNat(SubSeq(s, 7, 8)) < 60
    /\ Len(s) = 15 => (Char(s, 9) = "." /\ AllDigits(SubSeq(s, 10, 15)))

\* whether datetime.fromisoformat(s) returns (it raises ValueError otherwise)
CanParseIso(s) ==
    /\ Len(s) \in {10, 19, 26}
    /\ IsIsoDate(SubSeq(s, 1, 10))
    /\ Len(s) > 10 => IsIsoTime(SubSeq(s, 12, Len(s)))

\* datetime.fromisoformat(s)
FromIsoFormat(s) ==
    [date |-> ParseDate(SubSeq(s, 1, 10)),
     sec |-> IF Len(s) = 10 THEN 0
             ELSE ParseNat(SubSeq(s, 12, 13)) * 3600
                  + ParseNat(SubSeq(s, 15, 16)) * 60
                  + ParseNat(SubSeq(s, 18, 19)),
     us |-> IF Len(s) = 26 THEN ParseNat(SubSeq(s, 21, 26)) ELSE 0]

(***************************************************************************)
(* The wall clock.  The model's first instant is 08:00:00 on Today; a tick *)
(* is half a second, so that instants with and without microseconds occur. *)
(***************************************************************************)
Today == [year |-> 2024, month |-> 1, day |-> 8]

\* datetime.utcnow() / datetime.now() at tick c
Now(c) == [date |-> Today, sec |-> 28800 + (c \div 2), us |-> (c % 2) * 500000]

(***************************************************************************)
(* Column(db.Float): binary floating point, scaled down to a significand   *)
(* of MantissaBits bits over the non-negative integers.  Every integer     *)
(* below 2^MantissaBits is a float; above, only multiples of the quantum.  *)
(***************************************************************************)
RECURSIVE Pow2(_)
Pow2(n) == IF n = 0 THEN 1 ELSE 2 * Pow2(n - 1)

RECURSIVE Quantum(_, _)
\* the spacing of the floats around x >= 0, searched upwards from q
Quantum(x, q) == IF x < Pow2(MantissaBits) * q THEN q ELSE Quantum(x, 2 * q)

\* round to nearest float, ties to the even significand
FRound(x) ==
    LET q == Quantum(x, 1)
        lo == (x \div q) * q
        rem == x - lo
    IN  IF 2 * rem < q THEN lo
        ELSE IF 2 * rem > q THEN lo + q
        ELSE IF (lo \div q) % 2 = 0 THEN lo ELSE lo + q

\* float.__add__
FAdd(a, b) == FRound(a + b)

(***************************************************************************)
(* JSON objects (Python dicts) and rows.                                   *)
(***************************************************************************)
Has(obj, key) == key \in DOMAIN obj

\* dict.get(key, default)
Get(obj, key, default) == IF Has(obj, key) THEN obj[key] ELSE default

\* obj without key
Drop(obj, key) == [k \in DOMAIN obj \ {key} |-> obj[k]]

\* Python truth of a str-or-None value
Truthy(v) == v # None /\ v # ""

\* an attribute SQLAlchemy holds no value for; the INSERT fills it in
NoId == 0
NoTime == [date |-> [year |-> 0, month |-> 0, day |-> 0], sec |-> 0, us |-> 0]

\* Column(default=...): on INSERT a column whose attribute is None takes its
\* default (the ORM leaves a None attribute out of the INSERT)
ColumnDefault(v, default) == IF v = None THEN default ELSE v

TimeDefault(t, now) == IF t = NoTime THEN now ELSE t

IdSet(rows) == {r.id : r \in rows}

RECURSIVE MaxOf(_)
MaxOf(S) ==
    IF S = {} THEN 0
    ELSE LET x == CHOOSE y \in S : TRUE
             m == MaxOf(S \ {x})
         IN  IF x > m THEN x ELSE m

\* INTEGER PRIMARY KEY of SQLite: one more than the largest id in the table
NextId(rows) == MaxOf(IdSet(rows)) + 1

\* class Leader: the constructor, with the attributes the handler sets after it
Leader(name, zone, cell_day, contact_number, email, address, profile_picture, is_active) ==
    [id |-> NoId, name |-> name, zone |-> zone, cell_day |-> cell_day,
     contact_number |-> contact_number, email |-> email, address |-> address,
     profile_picture |-> profile_picture, is_active |-> is_active,
     created_at |-> NoTime, updated_at |-> NoTime]

\* class ServiceRecord: the constructor
ServiceRecord(leader_id, service_type, service_date, sunday_attendance, sunday_visitors, cell_attendance, cell_visitors, cell_offering, cell_decisions, notes) ==
    [id |-> NoId, leader_id |-> leader_id, service_type |-> service_type,
     service_date |-> service_date,
     sunday_attendance |-> sunday_attendance,
     sunday_visitors |-> sunday_visitors,
     cell_attendance |-> cell_attendance, cell_visitors |-> cell_visitors,
     cell_offering |-> cell_offering, cell_decisions |-> cell_decisions,
     notes |-> notes, submitted_at |-> NoTime]

\* the row INSERT writes for a pending Leader: primary key and column defaults
InsertLeader(obj, rows, now) ==
    [obj EXCEPT !.id = IF obj.id = NoId THEN NextId(rows) ELSE obj.id,
                !.cell_day = ColumnDefault(obj.cell_day, "Thursday"),
                !.created_at = TimeDefault(obj.created_at, now),
                !.updated_at = TimeDefault(obj.updated_at, now)]

\* the row INSERT writes for a pending ServiceRecord
InsertRecord(obj, rows, now) ==
    [obj EXCEPT !.id = IF obj.id = NoId THEN NextId(rows) ELSE obj.id,
                !.submitted_at = TimeDefault(obj.submitted_at, now)]

\* nullable=False of Leader.name and Leader.zone
LeaderNotNull(obj) == obj.name # None /\ obj.zone # None

\* nullable=False of ServiceRecord.service_type
RecordNotNull(obj) == obj.service_type # None

\* a session whose rollback is lost: the transaction's writes stay
RollbackLost(db, working) == working

\* db.session.rollback(): the transaction's writes are undone
Rollback(db, working) == db

\* db.session.commit() of a transaction that flushed without error
Commit(db, working) == working

EmptyStore == [leaders |-> {}, records |-> {}]

(***************************************************************************)
(* Profile-picture files.                                                  *)
(***************************************************************************)
MAX_CONTENT_LENGTH == 2 * 1024 * 1024

\* filename.rsplit(".", 1)[1].lower()
Extension(filename) ==
    Lower(SubSeq(filename, RFind(filename, ".", Len(filename)) + 1,
                 Len(filename)))

allowed_file(filename) ==
    /\ Find(filename, ".", 1) > 0
    /\ Extension(filename) \in ALLOWED_EXTENSIONS

\* int(datetime.now().timestamp()) at tick c
UnixTime(c) == 1704700800 + (c \div 2)

\* the name save_profile_picture stores the upload under, None when the file
\* is refused
save_profile_picture(file, leader_id, c) ==
    IF file.filename # "" /\ allowed_file(file.filename)
    THEN "leader_" \o ToString(leader_id) \o "_" \o ToString(UnixTime(c))
             \o "." \o Extension(file.filename)
    ELSE None

\* the folder after delete_profile_picture(filename)
delete_profile_picture(folder, filename) ==
    IF Truthy(filename) THEN folder \ {filename} ELSE folder

(***************************************************************************)
(* Responses.  A handler's result is the store and folder it leaves and    *)
(* the response it returns.                                                *)
(***************************************************************************)
Result(db, folder, status, success, note) ==
    [store |-> db, files |-> folder, status |-> status, success |-> success,
     note |-> note]

\* login_required: whether the decorated handler is called
login_required(session_flag) == session_flag

\* redirect(url_for("login")): the handler is not called
Redirect(db, folder) == Result(db, folder, 302, FALSE, "login")

NoFile == [valid |-> FALSE, data |-> [none |-> TRUE]]

(***************************************************************************)
(* backup_data and restore_data.                                           *)
(***************************************************************************)
BackupLeader(leader) ==
    [id |-> leader.id, name |-> leader.name, zone |-> leader.zone,
     cell_day |-> leader.cell_day,
     contact_number |-> leader.contact_number, email |-> leader.email,
     address |-> leader.address,
     profile_picture |-> leader.profile_picture,
     is_active |-> leader.is_active,
     created_at |-> IF leader.created_at # NoTime
                    THEN IsoFormat(leader.created_at) ELSE None,
     updated_at |-> IF leader.updated_at # NoTime
                    THEN IsoFormat(leader.updated_at) ELSE None]

BackupRecord(record) ==
    [id |-> record.id, leader_id |-> record.leader_id,
     service_type |-> record.service_type,
     service_date |-> DateStr(record.service_date),
     sunday_attendance |-> record.sunday_attendance,
     sunday_visitors |-> record.sunday_visitors,
     cell_attendance |-> record.cell_attendance,
     cell_visitors |-> record.cell_visitors,
     cell_offering |-> record.cell_offering,
     cell_decisions |-> record.cell_decisions,
     notes |-> record.notes,
     submitted_at |-> IF record.submitted_at # NoTime
                      THEN IsoFormat(record.submitted_at) ELSE None]

RECURSIVE ById(_)
\* Query.all(): the rows of a table in primary-key order
ById(rows) ==
    IF rows = {} THEN <<>>
    ELSE LET r == CHOOSE x \in rows : \A y \in rows : x.id <= y.id
         IN  <<r>> \o ById(rows \ {r})

\* the document backup_data writes
backup_data(db, now) ==
    LET all_leaders == ById(db.leaders)
        service_records_all == ById(db.records)
    IN  [valid |-> TRUE,
         data |-> [timestamp |-> IsoFormat(now),
                   leaders |-> [i \in DOMAIN all_leaders |->
                                   BackupLeader(all_leaders[i])],
                   service_records |-> [i \in DOMAIN service_records_all |->
                                   BackupRecord(service_records_all[i])]]]

\* whether the loop body of "Restore leaders" runs through for this entry
LeaderEntryOk(e) ==
    /\ Has(e, "name") /\ Has(e, "zone") /\ Has(e, "id")
    /\ Truthy(Get(e, "created_at", None)) => CanParseIso(e.created_at)
    /\ Truthy(Get(e, "updated_at", None)) => CanParseIso(e.updated_at)

RestoreLeader(e) ==
    [Leader(e.name, e.zone, Get(e, "cell_day", "Thursday"),
            Get(e, "contact_number", ""), Get(e, "email", ""),
            Get(e, "address", ""), Get(e, "profile_picture", None),
            Get(e, "is_active", TRUE))
     EXCEPT !.id = e.id,
            !.created_at = IF Truthy(Get(e, "created_at", None))
                           THEN FromIsoFormat(e.created_at) ELSE NoTime,
            !.updated_at = IF Truthy(Get(e, "updated_at", None))
                           THEN FromIsoFormat(e.updated_at) ELSE NoTime]

\* whether the loop body of "Restore service records" runs through
RecordEntryOk(e) ==
    /\ Has(e, "leader_id") /\ Has(e, "service_type")
    /\ Has(e, "service_date") /\ Has(e, "id")
    /\ CanParseDate(e.service_date)
    /\ Truthy(Get(e, "submitted_at", None)) => CanParseIso(e.submitted_at)

RestoreRecord(e) ==
    [ServiceRecord(e.leader_id, e.service_type, ParseDate(e.service_date),
                   Get(e, "sunday_attendance", 0),
                   Get(e, "sunday_visitors", 0),
                   Get(e, "cell_attendance", 0), Get(e, "cell_visitors", 0),
                   Get(e, "cell_offering", 0), Get(e, "cell_decisions", 0),
                   Get(e, "notes", ""))
     EXCEPT !.id = e.id,
            !.submitted_at = IF Truthy(Get(e, "submitted_at", None))
                             THEN FromIsoFormat(e.submitted_at) ELSE NoTime]

\* primary keys of the pending rows collide
DuplicateIds(entries) ==
    Cardinality({entries[i].id : i \in DOMAIN entries}) # Len(entries)

\* restore_data(): request.files["file"] is upload (present, filename, doc);
\* fault is a storage error raised by the commit
restore_data(db, folder, upload, now, fault) ==
    IF ~upload.present
    THEN Result(db, folder, 400, FALSE, "No file provided")
    ELSE IF upload.filename = ""
    THEN Result(db, folder, 400, FALSE, "No file selected")
    ELSE IF ~EndsWith(upload.filename, ".json")
    THEN Result(db, folder, 400, FALSE, "Invalid file format")
    ELSE IF ~upload.doc.valid
    THEN Result(Rollback(db, db), folder, 500, FALSE, "json")
    ELSE
      LET data == upload.doc.data
          ls == Get(data, "leaders", <<>>)
          rs == Get(data, "service_records", <<>>)
          cleared == EmptyStore
          restored ==
              [leaders |-> {InsertLeader(RestoreLeader(ls[i]), {}, now) :
                               i \in DOMAIN ls},
               records |-> {InsertRecord(RestoreRecord(rs[i]), {}, now) :
                               i \in DOMAIN rs}]
      IN  IF \E i \in DOMAIN ls : ~LeaderEntryOk(ls[i])
          THEN Result(Rollback(db, cleared), folder, 500, FALSE, "leader entry")
          ELSE IF \E i \in DOMAIN rs : ~RecordEntryOk(rs[i])
          THEN Result(Rollback(db, cleared), folder, 500, FALSE, "record entry")
          ELSE IF \/ DuplicateIds(ls) \/ DuplicateIds(rs)
                  \/ \E i \in DOMAIN ls : ~LeaderNotNull(RestoreLeader(ls[i]))
                  \/ \E i \in DOMAIN rs : ~RecordNotNull(RestoreRecord(rs[i]))
          THEN Result(Rollback(db, cleared), folder, 500, FALSE, "integrity")
          ELSE IF fault
          THEN Result(Rollback(db, restored), folder, 500, FALSE, "storage")
          ELSE Result(Commit(db, restored), folder, 200, TRUE, "restored")

(***************************************************************************)
(* submit_totals and the leader handlers.                                  *)
(***************************************************************************)
\* the pending ServiceRecord submit_totals builds from the request body
SubmittedRecord(data) ==
    LET record == ServiceRecord(data.leader_id, data.service_type,
                                ParseDate(data.service_date), 0, 0, 0, 0, 0, 0,
                                Get(data, "notes", ""))
    IN  IF data.service_type = "sunday"
        THEN [record EXCEPT
                 !.sunday_attendance = data.sunday_attendance,
                 !.sunday_visitors = Get(data, "sunday_visitors", 0)]
        ELSE [record EXCEPT
                 !.cell_attendance = data.cell_attendance,
                 !.cell_visitors = Get(data, "cell_visitors", 0),
                 !.cell_offering = Get(data, "cell_offering", 0),
                 !.cell_decisions = Get(data, "cell_decisions", 0)]

\* whether the try block of submit_totals reaches db.session.add
SubmitBodyOk(data) ==
    /\ Has(data, "leader_id") /\ Has(data, "service_type")
    /\ Has(data, "service_date")
    /\ CanParseDate(data.service_date)
    /\ IF data.service_type = "sunday"
       THEN Has(data, "sunday_attendance") ELSE Has(data, "cell_attendance")

\* a submit_totals whose except branch forgets the 400 status
submit_totals_200(db, folder, data, now, fault) ==
    IF ~SubmitBodyOk(data)
    THEN Result(Rollback(db, db), folder, 200, FALSE, "body")
    ELSE
      LET row == InsertRecord(SubmittedRecord(data), db.records, now)
          working == [db EXCEPT !.records = db.records \cup {row}]
      IN  IF ~RecordNotNull(row)
          THEN Result(Rollback(db, db), folder, 200, FALSE, "integrity")
          ELSE IF fault
          THEN Result(Rollback(db, working), folder, 200, FALSE, "storage")
          ELSE Result(Commit(db, working), folder, 200, TRUE, "submitted")

submit_totals(db, folder, data, now, fault) ==
    IF ~SubmitBodyOk(data)
    THEN Result(Rollback(db, db), folder, 400, FALSE, "body")
    ELSE
      LET row == InsertRecord(SubmittedRecord(data), db.records, now)
          working == [db EXCEPT !.records = db.records \cup {row}]
      IN  IF ~RecordNotNull(row)
          THEN Result(Rollback(db, db), folder, 400, FALSE, "integrity")
          ELSE IF fault
          THEN Result(Rollback(db, working), folder, 400, FALSE, "storage")
          ELSE Result(Commit(db, working), folder, 200, TRUE, "submitted")

create_leader(db, folder, data, now, fault) ==
    IF ~(Has(data, "name") /\ Has(data, "zone"))
    THEN Result(Rollback(db, db), folder, 400, FALSE, "body")
    ELSE
      LET leader == Leader(data.name, data.zone,
                           Get(data, "cell_day", "Thursday"),
                           Get(data, "contact_number", ""),
                           Get(data, "email", ""), Get(data, "address", ""),
                           Get(data, "profile_picture", None), TRUE)
          row == InsertLeader(leader, db.leaders, now)
          working == [db EXCEPT !.leaders = db.leaders \cup {row}]
      IN  IF ~LeaderNotNull(row)
          THEN Result(Rollback(db, db), folder, 400, FALSE, "integrity")
          ELSE IF fault
          THEN Result(Rollback(db, working), folder, 400, FALSE, "storage")
          ELSE Result(Commit(db, working), folder, 200, TRUE, "created")

\* Leader.query.get_or_404(leader_id) finds a row
Found(db, leader_id) == \E l \in db.leaders : l.id = leader_id

TheLeader(db, leader_id) == CHOOSE l \in db.leaders : l.id = leader_id

\* the leader table with one row rewritten
WithLeader(db, old, new) ==
    [db EXCEPT !.leaders = (db.leaders \ {old}) \cup {new}]

update_leader(db, folder, leader_id, data, now, fault) ==
    IF ~Found(db, leader_id)
    THEN Result(Rollback(db, db), folder, 400, FALSE, "404")
    ELSE IF ~(Has(data, "name") /\ Has(data, "zone"))
    THEN Result(Rollback(db, db), folder, 400, FALSE, "body")
    ELSE
      LET leader == TheLeader(db, leader_id)
          row == [leader EXCEPT
                     !.name = data.name,
                     !.zone = data.zone,
                     !.cell_day = Get(data, "cell_day", leader.cell_day),
                     !.contact_number = Get(data, "contact_number", ""),
                     !.email = Get(data, "email", ""),
                     !.address = Get(data, "address", ""),
                     !.is_active = Get(data, "is_active", TRUE),
                     !.updated_at = now]
          working == WithLeader(db, leader, row)
      IN  IF ~LeaderNotNull(row)
          THEN Result(Rollback(db, working), folder, 400, FALSE, "integrity")
          ELSE IF fault
          THEN Result(Rollback(db, working), folder, 400, FALSE, "storage")
          ELSE Result(Commit(db, working), folder, 200, TRUE, "updated")

\* the rows of Leader.service_records
service_records(db, leader_id) == {r \in db.records : r.leader_id = leader_id}

\* a delete_leader whose relationship cascades the delete to the records
delete_leader_cascade(db, folder, leader_id, fault) ==
    IF ~Found(db, leader_id)
    THEN Result(Rollback(db, db), folder, 500, FALSE, "404")
    ELSE
      LET leader == TheLeader(db, leader_id)
          kept == delete_profile_picture(folder, leader.profile_picture)
          working == [leaders |-> db.leaders \ {leader},
                      records |-> db.records \ service_records(db, leader_id)]
      IN  IF fault
          THEN Result(Rollback(db, working), kept, 500, FALSE, "storage")
          ELSE Result(Commit(db, working), kept, 200, TRUE, "deleted")

\* delete_leader(): the relationship has no delete cascade, so the flush sets
\* leader_id of the leader's records to NULL, which nullable=False refuses
delete_leader(db, folder, leader_id, fault) ==
    IF ~Found(db, leader_id)
    THEN Result(Rollback(db, db), folder, 500, FALSE, "404")
    ELSE
      LET leader == TheLeader(db, leader_id)
          kept == delete_profile_picture(folder, leader.profile_picture)
          working == [db EXCEPT !.leaders = db.leaders \ {leader}]
      IN  IF service_records(db, leader_id) # {}
          THEN Result(Rollback(db, working), kept, 500, FALSE, "integrity")
          ELSE IF fault
          THEN Result(Rollback(db, working), kept, 500, FALSE, "storage")
          ELSE Result(Commit(db, working), kept, 200, TRUE, "deleted")

upload_leader_picture(db, folder, leader_id, file, c, fault) ==
    IF ~Found(db, leader_id)
    THEN Result(Rollback(db, db), folder, 500, FALSE, "404")
    ELSE IF ~file.present
    THEN Result(db, folder, 400, FALSE, "No file provided")
    ELSE IF file.filename = ""
    THEN Result(db, folder, 400, FALSE, "No file selected")
    ELSE IF file.size > MAX_CONTENT_LENGTH
    THEN Result(db, folder, 400, FALSE, "File too large")
    ELSE
      LET leader == TheLeader(db, leader_id)
          cleaned == delete_profile_picture(folder, leader.profile_picture)
          filename == save_profile_picture(file, leader_id, c)
          row == [leader EXCEPT !.profile_picture = filename,
                                !.updated_at = Now(c)]
          working == WithLeader(db, leader, row)
      IN  IF filename = None
          THEN Result(db, cleaned, 400, FALSE, "Invalid file type")
          ELSE IF fault
          THEN Result(Rollback(db, working), cleaned \cup {filename}, 500,
                      FALSE, "storage")
          ELSE Result(Commit(db, working), cleaned \cup {filename}, 200, TRUE,
                      "uploaded")

remove_leader_picture(db, folder, leader_id, now, fault) ==
    IF ~Found(db, leader_id)
    THEN Result(Rollback(db, db), folder, 500, FALSE, "404")
    ELSE
      LET leader == TheLeader(db, leader_id)
          cleaned == delete_profile_picture(folder, leader.profile_picture)
          row == [leader EXCEPT !.profile_picture = None, !.updated_at = now]
          working == WithLeader(db, leader, row)
      IN  IF ~Truthy(leader.profile_picture)
          THEN Result(db, folder, 200, TRUE, "removed")
          ELSE IF fault
          THEN Result(Rollback(db, working), cleaned, 500, FALSE, "storage")
          ELSE Result(Commit(db, working), cleaned, 200, TRUE, "removed")

(***************************************************************************)
(* seed_database.                                                          *)
(***************************************************************************)
\* the i-th leader of the seed loop
SeedLeader(i) ==
    LET zone == SA_ZONES[((i - 1) % 3) + 1]
    IN  Leader("Leader " \o ToString(i), zone,
               CELL_DAYS[(i % Len(CELL_DAYS)) + 1],
               "+27 " \o Pad(70 + (i % 30), 2) \o " " \o Pad(100 + (i % 900), 3)
                   \o " " \o Pad(1000 + (i % 9000), 4),
               "leader" \o ToString(i) \o "@church.org.za",
               ToString(i * 10) \o " Main Street, " \o zone \o ", South Africa",
               None, TRUE)

\* the leaders of the seed loop, before they are inserted
SeedLeaders == [i \in 1..SeedCount |-> SeedLeader(i)]

\* seed_database(): the tables are cleared and committed, then the leaders
\* are added and committed (the empty table numbers them from 1); fault1 and
\* fault2 are storage errors of the two commits
seed_database(db, folder, now, fault1, fault2) ==
    LET seeded == [leaders |-> {[InsertLeader(SeedLeaders[i], {}, now)
                                   EXCEPT !.id = i] : i \in 1..SeedCount},
                   records |-> {}]
    IN  IF fault1
        THEN Result(Rollback(db, EmptyStore), folder, 200, FALSE,
                    "Error seeding database")
        ELSE IF fault2
        THEN Result(Rollback(Commit(db, EmptyStore), seeded), folder, 200,
                    FALSE, "Error seeding database")
        ELSE Result(Commit(EmptyStore, seeded), folder, 200, TRUE, "seeded")

(***************************************************************************)
(* The requests the model sends.                                           *)
(***************************************************************************)
\* the ids requests name in their path
LeaderIds == 1..MaxLeaders

Passwords == {"church123", "letmein"}

ADMIN_PASSWORD == "church123"

LeaderBody ==
    [name |-> "Leader 1", zone |-> "Chestnut",
     contact_number |-> "+27 71 101 1001", email |-> None]

CreateBodies ==
    {LeaderBody, Drop(LeaderBody, "zone"), [LeaderBody EXCEPT !.name = None]}

UpdateBodies ==
    {[name |-> "Leader 1", zone |-> "KB North", cell_day |-> None,
      is_active |-> FALSE],
     [zone |-> "Chestnut"]}

CellBody ==
    [leader_id |-> 1, service_type |-> "cell", service_date |-> "2024-01-04",
     cell_attendance |-> 20, cell_visitors |-> 3, cell_offering |-> 5,
     cell_decisions |-> 2]

SundayBody ==
    [leader_id |-> 1, service_type |-> "sunday", service_date |-> "2024-01-07",
     sunday_attendance |-> 50, sunday_visitors |-> 4, cell_offering |-> 7,
     cell_decisions |-> 1, notes |-> None]

SubmitBodies ==
    {CellBody, SundayBody,
     Drop(CellBody, "leader_id"), Drop(CellBody, "service_type"),
     Drop(CellBody, "service_date"), Drop(SundayBody, "sunday_attendance"),
     [CellBody EXCEPT !.service_date = "04/01/2024"],
     [CellBody EXCEPT !.service_type = None]}

Pictures ==
    {[present |-> FALSE, filename |-> "", size |-> 0],
     [present |-> TRUE, filename |-> "", size |-> 0],
     [present |-> TRUE, filename |-> "me.PNG", size |-> 4096],
     [present |-> TRUE, filename |-> "notes.txt", size |-> 4096],
     [present |-> TRUE, filename |-> "big.jpg", size |-> 3 * 1024 * 1024]}

LeaderEntry1 ==
    [id |-> 1, name |-> "Leader 1", zone |-> "Chestnut",
     cell_day |-> "Tuesday", contact_number |-> "", email |-> None,
     address |-> "", profile_picture |-> None, is_active |-> FALSE,
     created_at |-> "2024-01-01T09:30:00",
     updated_at |-> "2024-01-02T10:00:00.250000"]

LeaderEntry2 == [id |-> 2, name |-> "Leader 2", zone |-> "KB South"]

\* a sunday record whose cell half is not zero
RecordEntry1 ==
    [id |-> 1, leader_id |-> 1, service_type |-> "sunday",
     service_date |-> "2024-01-07", sunday_attendance |-> 40,
     sunday_visitors |-> 2, cell_offering |-> 3, cell_decisions |-> 1,
     notes |-> None, submitted_at |-> "2024-01-07T12:00:00"]

\* a cell record of a leader the document does not hold
RecordEntry2 ==
    [id |-> 2, leader_id |-> 9, service_type |-> "cell",
     service_date |-> "2023-12-31", cell_attendance |-> 12,
     cell_offering |-> 6]

Document(ls, rs) ==
    [valid |-> TRUE, data |-> [leaders |-> ls, service_records |-> rs]]

GoodDocument ==
    Document(<<LeaderEntry1, LeaderEntry2>>, <<RecordEntry1, RecordEntry2>>)

\* a file that is not JSON: json.load raises
NotJson == [valid |-> FALSE, data |-> [none |-> TRUE]]

BadDocuments ==
    {Document(<<LeaderEntry2, Drop(LeaderEntry1, k)>>, <<RecordEntry1>>) :
        k \in {"id", "name", "zone"}}
    \cup {Document(<<LeaderEntry1>>, <<RecordEntry2, Drop(RecordEntry1, k)>>) :
        k \in {"id", "leader_id", "service_type", "service_date"}}
    \cup {Document(<<LeaderEntry1>>,
                   <<[RecordEntry1 EXCEPT !.service_date = "07/01/2024"]>>),
          Document(<<LeaderEntry1>>,
                   <<[RecordEntry1 EXCEPT !.submitted_at = "yesterday"]>>),
          Document(<<[LeaderEntry1 EXCEPT !.created_at = "last week"]>>, <<>>),
          Document(<<LeaderEntry1, [LeaderEntry2 EXCEPT !.id = 1]>>, <<>>),
          Document(<<[LeaderEntry1 EXCEPT !.name = None]>>, <<>>)}

Documents ==
    {GoodDocument, Document(<<>>, <<>>), [valid |-> TRUE, data |-> [x |-> 0]],
     NotJson} \cup BadDocuments

\* request.files of a restore request whose file is one of Documents
Uploads ==
    {[present |-> FALSE, filename |-> "", doc |-> NotJson]}
    \cup {[present |-> TRUE, filename |-> n, doc |-> GoodDocument] :
            n \in {"", "backup.txt", "church_backup.JSON", "json"}}
    \cup {[present |-> TRUE, filename |-> "church_backup.json", doc |-> d] :
            d \in Documents}

\* the restore requests of the whole-application specification: one of each
\* outcome
CoreUploads ==
    {[present |-> FALSE, filename |-> "", doc |-> NotJson],
     [present |-> TRUE, filename |-> "backup.txt", doc |-> GoodDocument],
     [present |-> TRUE, filename |-> "church_backup.json", doc |-> NotJson],
     [present |-> TRUE, filename |-> "church_backup.json",
      doc |-> GoodDocument],
     [present |-> TRUE, filename |-> "church_backup.json",
      doc |-> Document(<<LeaderEntry2, Drop(LeaderEntry1, "name")>>,
                       <<RecordEntry1>>)]}

(***************************************************************************)
(* The state machine.                                                      *)
(***************************************************************************)
Response(op, arg, doc, res) ==
    [op |-> op, arg |-> arg, doc |-> doc, status |-> res.status,
     success |-> res.success, note |-> res.note]

Init ==
    /\ leaders = {}
    /\ records = {}
    /\ files = {}
    /\ logged_in = FALSE
    /\ clock = 0
    /\ backup = NoFile
    /\ backupOf = EmptyStore
    /\ requests = <<>>
    /\ last = [op |-> "start", arg |-> "", doc |-> "", status |-> 200,
               success |-> TRUE, note |-> ""]

\* a request is served with result res.  The downloaded backup is followed
\* until a handler other than restore_data next rewrites the store.
Serve(op, arg, doc, res) ==
    /\ leaders' = res.store.leaders
    /\ records' = res.store.records
    /\ files' = res.files
    /\ last' = Response(op, arg, doc, res)
    /\ IF op = "restore_data" \/ res.store = store
       THEN UNCHANGED <<backup, backupOf>>
       ELSE backup' = NoFile /\ backupOf' = EmptyStore
    /\ UNCHANGED <<logged_in, clock, requests>>

\* the result of a handler behind @login_required
Guarded(res) ==
    IF login_required(logged_in) THEN res ELSE Redirect(store, files)

Login ==
    \E password \in Passwords :
        /\ logged_in' = (logged_in \/ password = ADMIN_PASSWORD)
        /\ last' = [op |-> "login", arg |-> "", doc |-> "", status |-> 302,
                    success |-> logged_in', note |-> ""]
        /\ UNCHANGED <<leaders, records, files, clock, backup, backupOf,
                     requests>>

Logout ==
    /\ logged_in' = FALSE
    /\ last' = [op |-> "logout", arg |-> "", doc |-> "", status |-> 302,
                success |-> TRUE, note |-> ""]
    /\ UNCHANGED <<leaders, records, files, clock, backup, backupOf,
                     requests>>

Tick ==
    /\ clock < MaxClock
    /\ clock' = clock + 1
    /\ UNCHANGED <<leaders, records, files, logged_in, backup, backupOf, last,
                   requests>>

CreateLeader ==
    \E data \in CreateBodies, fault \in BOOLEAN :
        /\ Cardinality(leaders) < MaxLeaders
        /\ Serve("create_leader", "", "",
                 Guarded(create_leader(store, files, data, Now(clock), fault)))

UpdateLeader ==
    \E id \in LeaderIds, data \in UpdateBodies, fault \in BOOLEAN :
        Serve("update_leader", "", "",
              Guarded(update_leader(store, files, id, data, Now(clock), fault)))

DeleteLeaderOf(ids) ==
    \E id \in ids, fault \in BOOLEAN :
        Serve("delete_leader", id, "",
              Guarded(delete_leader(store, files, id, fault)))

UploadPictureOf(ids) ==
    \E id \in ids, file \in Pictures, fault \in BOOLEAN :
        Serve("upload_leader_picture", id, "",
              Guarded(upload_leader_picture(store, files, id, file, clock,
                                            fault)))

RemovePictureOf(ids) ==
    \E id \in ids, fault \in BOOLEAN :
        Serve("remove_leader_picture", id, "",
              Guarded(remove_leader_picture(store, files, id, Now(clock),
                                            fault)))

\* a submission with one of bodies; one that adds a record is explored while
\* fewer than max records exist
SubmitTotalsOf(bodies, max) ==
    \E data \in bodies, fault \in BOOLEAN :
        LET res == Guarded(submit_totals(store, files, data, Now(clock),
                                         fault))
        IN  /\ res.store.records = records \/ Cardinality(records) < max
            /\ Serve("submit_totals", data, "", res)

BackupData ==
    /\ backup' = IF login_required(logged_in)
                 THEN backup_data(store, Now(clock)) ELSE backup
    /\ backupOf' = IF login_required(logged_in) THEN store ELSE backupOf
    /\ last' = [op |-> "backup_data", arg |-> "", doc |-> "",
                status |-> IF login_required(logged_in) THEN 200 ELSE 302,
                success |-> login_required(logged_in), note |-> ""]
    /\ UNCHANGED <<leaders, records, files, logged_in, clock, requests>>

\* last.doc of a restore request: where the file came from and, when the
\* restore succeeded, the document it held
RestoredFrom(source, doc, res) ==
    [source |-> source, file |-> IF res.success THEN doc ELSE NoFile]

RestoreData(uploads) ==
    \E upload \in uploads, fault \in BOOLEAN :
        LET res == Guarded(restore_data(store, files, upload, Now(clock),
                                        fault))
        IN  Serve("restore_data",
                  IF upload.present THEN upload.filename ELSE None,
                  RestoredFrom("upload", upload.doc, res), res)

\* the downloaded backup is uploaded again, under the name it was saved with
RestoreBackup ==
    \E fault \in BOOLEAN :
        /\ backup # NoFile
        /\ LET res == Guarded(restore_data(store, files,
                                            [present |-> TRUE,
                                             filename |-> "church_backup.json",
                                             doc |-> backup],
                                            Now(clock), fault))
           IN  Serve("restore_data", "church_backup.json",
                     RestoredFrom("backup", backup, res), res)

\* seed_database carries no @login_required
SeedDatabase ==
    \E fault1, fault2 \in BOOLEAN :
        Serve("seed_database", "", "",
              seed_database(store, files, Now(clock), fault1, fault2))

\* the session and every handler that writes to the store or to the upload
\* folder; the handlers that only read are in the specifications below
Next ==
    \/ Login
    \/ Logout
    \/ Tick
    \/ CreateLeader
    \/ UpdateLeader
    \/ DeleteLeaderOf(LeaderIds)
    \/ UploadPictureOf(LeaderIds)
    \/ RemovePictureOf(LeaderIds)
    \/ SubmitTotalsOf(SubmitBodies, MaxRecords)
    \/ RestoreData(CoreUploads)
    \/ SeedDatabase

Spec == Init /\ [][Next]_vars

(***************************************************************************)
(* Backup and restore in a logged-in session, with every restore request.  *)
(***************************************************************************)
InitLoggedIn ==
    /\ leaders = {}
    /\ records = {}
    /\ files = {}
    /\ logged_in = TRUE
    /\ clock = 0
    /\ backup = NoFile
    /\ backupOf = EmptyStore
    /\ requests = <<>>
    /\ last = [op |-> "login", arg |-> "", doc |-> "", status |-> 302,
               success |-> TRUE, note |-> ""]

NextRestore ==
    \/ Tick
    \/ CreateLeader
    \/ UpdateLeader
    \/ SubmitTotalsOf({CellBody, SundayBody}, MaxRecords)
    \/ BackupData
    \/ RestoreData(Uploads)
    \/ RestoreBackup

SpecRestore == InitLoggedIn /\ [][NextRestore]_vars

(***************************************************************************)
(* The aggregation engine: analytics_overview, analytics_trends,           *)
(* recent_submissions, export_csv, stats_overview.                         *)
(***************************************************************************)
\* the first day of the window of a period token, as an ordinal
StartOrdinal(period, today) ==
    IF period = "week" THEN Ordinal(today) - 7
    ELSE IF period = "month" THEN Ordinal(today) - 30
    ELSE Ordinal(today) - 365

\* ServiceRecord.query.join(Leader): the records whose leader row exists
Joined(db) == {r \in db.records : Found(db, r.leader_id)}

\* record.leader
LeaderOf(db, record) == TheLeader(db, record.leader_id)

\* the rows the overview and the trends query return, in primary-key order;
\* leader_id is the query-string text, "" when not given
SelectedRecords(db, period, zone_filter, leader_id, today) ==
    ById({r \in Joined(db) :
            /\ Ordinal(r.service_date) >= StartOrdinal(period, today)
            /\ Ordinal(r.service_date) <= Ordinal(today)
            /\ zone_filter # "" => LeaderOf(db, r).zone = zone_filter
            /\ leader_id # "" => ToString(r.leader_id) = leader_id})

RECURSIVE SumInt(_, _)
\* sum(values[i..]) over integers
SumInt(values, i) ==
    IF i > Len(values) THEN 0 ELSE values[i] + SumInt(values, i + 1)

RECURSIVE SumFloat(_, _, _)
\* sum(values[i..]) over floats, added from the left onto acc
SumFloat(values, i, acc) ==
    IF i > Len(values) THEN acc
    ELSE SumFloat(values, i + 1, FAdd(acc, values[i]))

\* len([r for r in rows if r.service_type == service_type])
Count(rows, service_type) ==
    Cardinality({i \in DOMAIN rows : rows[i].service_type = service_type})

\* flat totals that take every attendance from the cell half
CellOnlyTotals(rows) ==
    LET attendance(r) == r.cell_attendance
        visitors(r) == r.cell_visitors
        offering(r) == IF r.service_type = "cell" THEN r.cell_offering ELSE 0
        decisions(r) == IF r.service_type = "cell" THEN r.cell_decisions ELSE 0
    IN  [total_attendance |->
            SumInt([i \in DOMAIN rows |-> attendance(rows[i])], 1),
         total_visitors |->
            SumInt([i \in DOMAIN rows |-> visitors(rows[i])], 1),
         total_offering |->
            SumFloat([i \in DOMAIN rows |-> offering(rows[i])], 1, 0),
         total_decisions |->
            SumInt([i \in DOMAIN rows |-> decisions(rows[i])], 1),
         sunday_services |-> Count(rows, "sunday"),
         cell_meetings |-> Count(rows, "cell"),
         total_records |-> Len(rows)]

\* the flat totals of analytics_overview
OverviewTotals(rows) ==
    LET attendance(r) == IF r.service_type = "sunday"
                         THEN r.sunday_attendance ELSE r.cell_attendance
        visitors(r) == IF r.service_type = "sunday"
                       THEN r.sunday_visitors ELSE r.cell_visitors
        offering(r) == IF r.service_type = "cell" THEN r.cell_offering ELSE 0
        decisions(r) == IF r.service_type = "cell" THEN r.cell_decisions ELSE 0
    IN  [total_attendance |->
            SumInt([i \in DOMAIN rows |-> attendance(rows[i])], 1),
         total_visitors |->
            SumInt([i \in DOMAIN rows |-> visitors(rows[i])], 1),
         total_offering |->
            SumFloat([i \in DOMAIN rows |-> offering(rows[i])], 1, 0),
         total_decisions |->
            SumInt([i \in DOMAIN rows |-> decisions(rows[i])], 1),
         sunday_services |-> Count(rows, "sunday"),
         cell_meetings |-> Count(rows, "cell"),
         total_records |-> Len(rows)]

ZeroStats ==
    [attendance |-> 0, visitors |-> 0, offering |-> 0, decisions |-> 0,
     services |-> 0]

\* a grouping turn that adds the stored cell values whatever the type
AddRawToGroup(entry, record) ==
    [attendance |-> entry.attendance
                    + (IF record.service_type = "sunday"
                       THEN record.sunday_attendance
                       ELSE record.cell_attendance),
     visitors |-> entry.visitors
                  + (IF record.service_type = "sunday"
                     THEN record.sunday_visitors ELSE record.cell_visitors),
     offering |-> FAdd(entry.offering, record.cell_offering),
     decisions |-> entry.decisions + record.cell_decisions,
     services |-> entry.services + 1]

\* a grouping turn that counts a service only when it adds attendance
AddAttendedToGroup(entry, record) ==
    [attendance |-> entry.attendance
                    + (IF record.service_type = "sunday"
                       THEN record.sunday_attendance
                       ELSE record.cell_attendance),
     visitors |-> entry.visitors
                  + (IF record.service_type = "sunday"
                     THEN record.sunday_visitors ELSE record.cell_visitors),
     offering |-> FAdd(entry.offering,
                       IF record.service_type = "cell"
                       THEN record.cell_offering ELSE 0),
     decisions |-> entry.decisions
                   + (IF record.service_type = "cell"
                      THEN record.cell_decisions ELSE 0),
     services |-> entry.services
                  + (IF record.service_type = "sunday" THEN 0 ELSE 1)]

\* one turn of a grouping loop: the record is added to its group's entry
AddToGroup(entry, record) ==
    [attendance |-> entry.attendance
                    + (IF record.service_type = "sunday"
                       THEN record.sunday_attendance
                       ELSE record.cell_attendance),
     visitors |-> entry.visitors
                  + (IF record.service_type = "sunday"
                     THEN record.sunday_visitors ELSE record.cell_visitors),
     offering |-> FAdd(entry.offering,
                       IF record.service_type = "cell"
                       THEN record.cell_offering ELSE 0),
     decisions |-> entry.decisions
                   + (IF record.service_type = "cell"
                      THEN record.cell_decisions ELSE 0),
     services |-> entry.services + 1]

RECURSIVE GroupBy(_, _, _, _)
\* a grouping loop over rows[i..], keys[i] the group of rows[i]: stats is the
\* dict built so far
GroupBy(rows, keys, i, stats) ==
    IF i > Len(rows) THEN stats
    ELSE LET k == keys[i]
             entry == IF k \in DOMAIN stats THEN stats[k] ELSE ZeroStats
             added == AddToGroup(entry, rows[i])
         IN  GroupBy(rows, keys, i + 1,
                     [x \in DOMAIN stats \cup {k} |->
                         IF x = k THEN added ELSE stats[x]])

EmptyDict == [x \in {} |-> ZeroStats]

\* the body analytics_overview returns (leader_stats without the copied zone)
analytics_overview(db, period, zone_filter, leader_id, today) ==
    LET rows == SelectedRecords(db, period, zone_filter, leader_id, today)
        zone == [i \in DOMAIN rows |-> LeaderOf(db, rows[i]).zone]
        leader_name == [i \in DOMAIN rows |-> LeaderOf(db, rows[i]).name]
        totals == OverviewTotals(rows)
    IN  [period |-> period,
         total_attendance |-> totals.total_attendance,
         total_visitors |-> totals.total_visitors,
         total_offering |-> totals.total_offering,
         total_decisions |-> totals.total_decisions,
         sunday_services |-> totals.sunday_services,
         cell_meetings |-> totals.cell_meetings,
         zone_stats |-> GroupBy(rows, zone, 1, EmptyDict),
         leader_stats |-> GroupBy(rows, leader_name, 1, EmptyDict),
         total_records |-> totals.total_records]

\* the order of the characters of a bucket key
KeyChars == "-0123456789"

Rank(c) == CHOOSE k \in 1..Len(KeyChars) : Char(KeyChars, k) = c

RECURSIVE StrLess(_, _)
\* a < b of Python strings made of KeyChars
StrLess(a, b) ==
    IF Len(b) = 0 THEN FALSE
    ELSE IF Len(a) = 0 THEN TRUE
    ELSE IF Char(a, 1) = Char(b, 1)
    THEN StrLess(SubSeq(a, 2, Len(a)), SubSeq(b, 2, Len(b)))
    ELSE Rank(Char(a, 1)) < Rank(Char(b, 1))

RECURSIVE SortedKeysReversed(_)
\* sorted(keys, reverse=True)
SortedKeysReversed(keys) ==
    IF keys = {} THEN <<>>
    ELSE LET k == CHOOSE x \in keys : \A y \in keys \ {x} : StrLess(y, x)
         IN  <<k>> \o SortedKeysReversed(keys \ {k})

RECURSIVE SortedKeys(_)
\* sorted(keys)
SortedKeys(keys) ==
    IF keys = {} THEN <<>>
    ELSE LET k == CHOOSE x \in keys : \A y \in keys \ {x} : StrLess(x, y)
         IN  <<k>> \o SortedKeys(keys \ {k})

\* the key of a record's trend bucket
date_key(period, record) ==
    IF period = "year" THEN MonthStr(record.service_date)
    ELSE DateStr(record.service_date)

\* the list analytics_trends returns
analytics_trends(db, period, zone_filter, today) ==
    LET rows == SelectedRecords(db, period, zone_filter, "", today)
        keys == [i \in DOMAIN rows |-> date_key(period, rows[i])]
        trends == GroupBy(rows, keys, 1, EmptyDict)
        dates == SortedKeys(DOMAIN trends)
    IN  [i \in DOMAIN dates |->
            [date |-> dates[i],
             attendance |-> trends[dates[i]].attendance,
             visitors |-> trends[dates[i]].visitors,
             offering |-> trends[dates[i]].offering,
             decisions |-> trends[dates[i]].decisions,
             services |-> trends[dates[i]].services]]

\* an instant as day, second and microsecond, the order ORDER BY
\* submitted_at compares
Instant(t) == <<Ordinal(t.date), t.sec, t.us>>

RECURSIVE Greater(_, _)
\* a > b of tuples of integers of one length
Greater(a, b) ==
    /\ Len(a) > 0
    /\ \/ a[1] > b[1]
       \/ a[1] = b[1] /\ Greater(Tail(a), Tail(b))

RECURSIVE OrderByDesc(_, _)
\* ORDER BY key DESC, key[r] a tuple of integers; rows with equal keys in
\* primary-key order
OrderByDesc(rows, key) ==
    IF rows = {} THEN <<>>
    ELSE LET first == CHOOSE r \in rows : \A q \in rows \ {r} :
                          \/ Greater(key[r], key[q])
                          \/ key[r] = key[q] /\ r.id < q.id
         IN  <<first>> \o OrderByDesc(rows \ {first}, key)

\* .limit(20)
RecentLimit == 20

\* strftime("%Y-%m-%d %H:%M")
MinuteStr(t) ==
    DateStr(t.date) \o " " \o Pad(t.sec \div 3600, 2) \o ":"
        \o Pad((t.sec \div 60) % 60, 2)

\* the list recent_submissions returns
recent_submissions(db) ==
    LET ordered == OrderByDesc(Joined(db),
                               [r \in Joined(db) |-> Instant(r.submitted_at)])
        rows == SubSeq(ordered, 1,
                       IF Len(ordered) < RecentLimit THEN Len(ordered)
                       ELSE RecentLimit)
    IN  [i \in DOMAIN rows |->
            LET record == rows[i]
            IN  [id |-> record.id,
                 leader_name |-> LeaderOf(db, record).name,
                 leader_zone |-> LeaderOf(db, record).zone,
                 service_type |-> record.service_type,
                 service_date |-> DateStr(record.service_date),
                 attendance |-> IF record.service_type = "sunday"
                                THEN record.sunday_attendance
                                ELSE record.cell_attendance,
                 visitors |-> IF record.service_type = "sunday"
                              THEN record.sunday_visitors
                              ELSE record.cell_visitors,
                 offering |-> IF record.service_type = "cell"
                              THEN record.cell_offering ELSE 0,
                 decisions |-> IF record.service_type = "cell"
                               THEN record.cell_decisions ELSE 0,
                 notes |-> record.notes,
                 submitted_at |-> MinuteStr(record.submitted_at)]]

CsvHeader ==
    <<"ID", "Leader Name", "Zone", "Service Type", "Service Date",
      "Attendance", "Visitors", "Offering (ZAR)", "Decisions", "Notes",
      "Submitted At">>

\* str() of a float column value, as csv.writer writes it
FloatStr(x) == ToString(x) \o ".0"

\* the fields of the line export_csv writes for a record
CsvRow(db, record) ==
    LET sunday == record.service_type = "sunday"
        attendance == IF sunday THEN record.sunday_attendance
                      ELSE record.cell_attendance
        visitors == IF sunday THEN record.sunday_visitors
                    ELSE record.cell_visitors
        offering == IF sunday THEN "0" ELSE FloatStr(record.cell_offering)
        decisions == IF sunday THEN 0 ELSE record.cell_decisions
    IN  <<ToString(record.id), LeaderOf(db, record).name,
          LeaderOf(db, record).zone, record.service_type,
          DateStr(record.service_date), ToString(attendance),
          ToString(visitors), offering, ToString(decisions),
          IF Truthy(record.notes) THEN record.notes ELSE "",
          MinuteStr(record.submitted_at)>>

\* the lines of the file export_csv returns, each as its list of fields;
\* start_date and end_date are the query-string texts, "" when not given
export_csv(db, start_date, end_date, zone_filter) ==
    LET chosen == {r \in Joined(db) :
                     /\ start_date # "" =>
                          Ordinal(r.service_date) >= Ordinal(ParseDate(start_date))
                     /\ end_date # "" =>
                          Ordinal(r.service_date) <= Ordinal(ParseDate(end_date))
                     /\ zone_filter # "" =>
                          LeaderOf(db, r).zone = zone_filter}
        rows == OrderByDesc(chosen,
                            [r \in chosen |-> <<Ordinal(r.service_date)>>])
    IN  <<CsvHeader>> \o [i \in DOMAIN rows |-> CsvRow(db, rows[i])]

\* the body stats_overview returns; the offering is SQL SUM over the column
stats_overview(db, today) ==
    [total_submissions |-> Cardinality(db.records),
     total_leaders |-> Cardinality({l \in db.leaders : l.is_active = TRUE}),
     recent_submissions |->
        Cardinality({r \in db.records :
                        Ordinal(r.service_date) >= Ordinal(today) - 7}),
     total_offering |->
        LET rows == ById(db.records)
        IN  SumFloat([i \in DOMAIN rows |-> rows[i].cell_offering], 1, 0)]

(***************************************************************************)
(* The stores the aggregation engine is run on: three leaders, two of them *)
(* sharing a display name and a zone, and up to MaxAnalyticsRecords of the *)
(* records below.  Record 4 is a sunday record restored with cell values,  *)
(* record 8 names a leader that no longer exists, record 9 was submitted   *)
(* with a service type other than "sunday" and "cell".                     *)
(***************************************************************************)
AnalyticsLeader(id, name, zone) ==
    [InsertLeader(Leader(name, zone, "Thursday", None, None, None, None, TRUE),
                  {}, Now(0))
        EXCEPT !.id = id]

AnalyticsLeaders ==
    {AnalyticsLeader(1, "Leader 1", "Chestnut"),
     AnalyticsLeader(2, "Leader 2", "KB South"),
     AnalyticsLeader(3, "Leader 1", "Chestnut")}

AnalyticsRecord(id, leader_id, service_type, service_date, sunday_attendance, sunday_visitors, cell_attendance, cell_visitors, cell_offering, cell_decisions) ==
    [ServiceRecord(leader_id, service_type, ParseDate(service_date),
                   sunday_attendance, sunday_visitors, cell_attendance,
                   cell_visitors, cell_offering, cell_decisions,
                   IF id % 2 = 0 THEN None ELSE "")
        EXCEPT !.id = id,
               !.submitted_at = [date |-> Today, sec |-> 28800 + 60 * id,
                                 us |-> 0]]

RecordPool ==
    {AnalyticsRecord(1, 1, "cell", "2024-01-04", 0, 0, 20, 3, 7, 2),
     AnalyticsRecord(2, 2, "cell", "2024-01-08", 0, 0, 5, 1, 1, 0),
     AnalyticsRecord(3, 3, "cell", "2024-01-04", 0, 0, 8, 0, 2, 1),
     AnalyticsRecord(4, 1, "sunday", "2024-01-01", 40, 2, 9, 1, 3, 1),
     AnalyticsRecord(5, 2, "sunday", "2023-12-31", 30, 0, 0, 0, 0, 0),
     AnalyticsRecord(6, 1, "cell", "2023-01-08", 0, 0, 12, 2, 4, 3),
     AnalyticsRecord(7, 2, "cell", "2024-01-09", 0, 0, 7, 1, 5, 1),
     AnalyticsRecord(8, 9, "cell", "2024-01-04", 0, 0, 11, 1, 6, 1),
     AnalyticsRecord(9, 1, "midweek", "2023-12-09", 0, 0, 6, 1, 1, 1),
     AnalyticsRecord(10, 3, "cell", "2023-01-07", 0, 0, 4, 0, 2, 0)}

Periods == {"week", "month", "year", "quarter"}

ZoneFilters == {"", "Chestnut"}

LeaderFilters == {"", "1"}

DateFilters == {"", "2024-01-04"}

InitAnalytics ==
    /\ leaders = AnalyticsLeaders
    /\ records \in {S \in SUBSET RecordPool :
                        Cardinality(S) <= MaxAnalyticsRecords}
    /\ files = {}
    /\ logged_in = TRUE
    /\ clock = 0
    /\ backup = NoFile
    /\ backupOf = EmptyStore
    /\ requests = <<>>
    /\ last = [op |-> "login", arg |-> "", doc |-> "", status |-> 302,
               success |-> TRUE, note |-> ""]

\* a read-only request is answered with body, computed from the store
Answer(op, arg, body) ==
    /\ last' = [op |-> op, arg |-> arg, doc |-> body, status |-> 200,
                success |-> TRUE, note |-> ""]
    /\ UNCHANGED <<leaders, records, files, logged_in, clock, backup,
                   backupOf, requests>>

AnalyticsOverviewOf(zones, leader_ids) ==
    \E period \in Periods, zone \in zones, leader_id \in leader_ids :
        Answer("analytics_overview",
               [period |-> period, zone |-> zone, leader_id |-> leader_id],
               analytics_overview(store, period, zone, leader_id,
                                  Now(clock).date))

AnalyticsTrends ==
    \E period \in Periods, zone \in ZoneFilters :
        Answer("analytics_trends", [period |-> period, zone |-> zone],
               analytics_trends(store, period, zone, Now(clock).date))

RecentSubmissions ==
    Answer("recent_submissions", "", recent_submissions(store))

ExportCsv ==
    \E start_date \in DateFilters, end_date \in DateFilters,
       zone \in ZoneFilters :
        /\ login_required(logged_in)
        /\ Answer("export_csv",
                  [start_date |-> start_date, end_date |-> end_date,
                   zone |-> zone],
                  export_csv(store, start_date, end_date, zone))

StatsOverview ==
    Answer("stats_overview", "", stats_overview(store, Now(clock).date))

NextAnalytics ==
    \/ AnalyticsOverviewOf(ZoneFilters, LeaderFilters)
    \/ AnalyticsTrends
    \/ RecentSubmissions
    \/ ExportCsv
    \/ StatsOverview

SpecAnalytics == InitAnalytics /\ [][NextAnalytics]_vars

(***************************************************************************)
(* Properties of backup and restore.                                       *)
(***************************************************************************)
\* C1: a restore_data request that fails, at whatever point, leaves the set
\* of Leaders and the set of ServiceRecords exactly as they were before it.
RestoreAllOrNothing ==
    [][(last'.op = "restore_data" /\ ~last'.success)
          => (leaders' = leaders /\ records' = records)]_vars

\* a restore has failed on an entry after its deletes, over a store that
\* holds a leader and a record
RestoreFailedMidWay ==
    /\ last.op = "restore_data"
    /\ last.status = 500
    /\ last.note = "record entry"
    /\ leaders # {}
    /\ records # {}

\* C2: restoring the document backup_data wrote gives back the store the
\* backup was taken of, field for field and row for row.
BackupRestoreRoundTrip ==
    (last.op = "restore_data" /\ last.doc.source = "backup" /\ last.success)
        => store = backupOf

\* the file name carries the .json extension
HasJsonExtension(filename) ==
    /\ Len(filename) >= 5
    /\ SubSeq(filename, Len(filename) - 4, Len(filename)) = ".json"

\* C3: a restore request with no file, an empty file name or a file name
\* that does not end in .json is answered with an error and changes no
\* Leader and no ServiceRecord.
RestoreRejectsOtherExtensions ==
    [][(last'.op = "restore_data" /\ ~HasJsonExtension(last'.arg))
          => /\ last'.status = 400
             /\ ~last'.success
             /\ leaders' = leaders
             /\ records' = records]_vars

\* a well-formed document was uploaded under a name without the extension,
\* over a store that holds a leader
RestoreRejectedByName ==
    /\ last.op = "restore_data"
    /\ last.note = "Invalid file format"
    /\ last.arg = "church_backup.JSON"
    /\ leaders # {}

(***************************************************************************)
(* Properties of the mutating endpoints.                                   *)
(***************************************************************************)
\* C4: no request made while the session is not logged in changes the set
\* of Leaders or the set of ServiceRecords.
AuthGateGuardsMutations ==
    [][~logged_in => (leaders' = leaders /\ records' = records)]_vars

MutatingHandlers ==
    {"submit_totals", "create_leader", "update_leader", "delete_leader",
     "upload_leader_picture", "remove_leader_picture", "restore_data",
     "seed_database"}

\* C5: when a mutating handler answers with a failure, the persisted Leaders
\* and ServiceRecords are those before the request.
FailureLeavesStore ==
    [][(last'.op \in MutatingHandlers /\ ~last'.success)
          => (leaders' = leaders /\ records' = records)]_vars

\* C10: every ServiceRecord has its inactive half at zero: a sunday record
\* has no cell values and a cell record has no sunday values.
InactiveHalfIsZero ==
    \A r \in records :
        /\ r.service_type \in {"sunday", "cell"}
        /\ r.service_type = "sunday" =>
              /\ r.cell_attendance = 0 /\ r.cell_visitors = 0
              /\ r.cell_offering = 0 /\ r.cell_decisions = 0
        /\ r.service_type = "cell" =>
              /\ r.sunday_attendance = 0 /\ r.sunday_visitors = 0

(***************************************************************************)
(* Properties of the aggregation engine.                                   *)
(***************************************************************************)
RECURSIVE DictTotal(_, _, _)
\* the sum of one accumulator over the entries keys of a dict of groups
DictTotal(stats, field, keys) ==
    IF keys = {} THEN 0
    ELSE LET k == CHOOSE x \in keys : TRUE
         IN  stats[k][field] + DictTotal(stats, field, keys \ {k})

GroupTotal(stats, field) == DictTotal(stats, field, DOMAIN stats)

RECURSIVE ListTotal(_, _, _)
\* the sum of one accumulator over the buckets list[i..]
ListTotal(list, field, i) ==
    IF i > Len(list) THEN 0
    ELSE list[i][field] + ListTotal(list, field, i + 1)

\* the cell offerings of the selected rows add up without rounding: their
\* sum, and so every partial sum, fits the significand
OfferingIsExact(rows) ==
    SumInt([i \in DOMAIN rows |->
               IF rows[i].service_type = "cell" THEN rows[i].cell_offering
               ELSE 0], 1)
        <= Pow2(MantissaBits)

\* the rows the request recorded in last was answered from
RowsOfLast ==
    SelectedRecords(store, last.arg.period, last.arg.zone,
                    IF last.op = "analytics_overview"
                    THEN last.arg.leader_id ELSE "", Now(clock).date)

\* C6 (amended): in every overview, total_attendance, total_visitors and
\* total_decisions equal the sums of the zone accumulators and total_records
\* equals the sum of the zone services counts; total_offering equals the sum
\* of the zone offerings when the offerings add up without rounding.
OverviewEqualsZoneSums ==
    last.op = "analytics_overview" =>
        LET o == last.doc
        IN  /\ o.total_attendance = GroupTotal(o.zone_stats, "attendance")
            /\ o.total_visitors = GroupTotal(o.zone_stats, "visitors")
            /\ o.total_decisions = GroupTotal(o.zone_stats, "decisions")
            /\ o.total_records = GroupTotal(o.zone_stats, "services")
            /\ OfferingIsExact(RowsOfLast) =>
                  o.total_offering = GroupTotal(o.zone_stats, "offering")

\* an overview over two zones with a sunday service and cell offerings
OverviewOverTwoZones ==
    /\ last.op = "analytics_overview"
    /\ Cardinality(DOMAIN last.doc.zone_stats) = 2
    /\ last.doc.sunday_services > 0
    /\ last.doc.total_offering > 0
    /\ OfferingIsExact(RowsOfLast)

\* C6 as stated: total_offering too always equals the sum of the zone
\* offerings.
OverviewOfferingEqualsZoneSum ==
    last.op = "analytics_overview" =>
        last.doc.total_offering = GroupTotal(last.doc.zone_stats, "offering")

\* the overview of the period and zone of the trends request in last
OverviewOfLast ==
    analytics_overview(store, last.arg.period, last.arg.zone, "",
                       Now(clock).date)

\* C7 (amended): the trend buckets of a period and a zone sum to the flat
\* totals of the overview of that period and zone in attendance, visitors
\* and decisions, and their services counts to total_records; the bucket
\* offerings sum to total_offering when the offerings add up without
\* rounding.
TrendsEqualOverview ==
    last.op = "analytics_trends" =>
        LET t == last.doc
            o == OverviewOfLast
        IN  /\ ListTotal(t, "attendance", 1) = o.total_attendance
            /\ ListTotal(t, "visitors", 1) = o.total_visitors
            /\ ListTotal(t, "decisions", 1) = o.total_decisions
            /\ ListTotal(t, "services", 1) = o.total_records
            /\ OfferingIsExact(RowsOfLast) =>
                  ListTotal(t, "offering", 1) = o.total_offering

\* trends of several buckets with a sunday service and cell offerings
TrendsOverSeveralBuckets ==
    /\ last.op = "analytics_trends"
    /\ Len(last.doc) >= 2
    /\ \E r \in records : r.service_type = "sunday"
    /\ ListTotal(last.doc, "offering", 1) > 0
    /\ ListTotal(last.doc, "services", 1) = 3
    /\ OfferingIsExact(RowsOfLast)

\* C7 as stated: the bucket offerings too always sum to total_offering.
TrendsOfferingEqualsOverview ==
    last.op = "analytics_trends" =>
        ListTotal(last.doc, "offering", 1) = OverviewOfLast.total_offering

\* C8: the trend bucket keys are daily for "week" and "month" and monthly
\* for "year" and for every other period token.
TrendKeyGranularity ==
    last.op = "analytics_trends" =>
        \A i \in DOMAIN last.doc :
            Len(last.doc[i].date)
                = (IF last.arg.period \in {"week", "month"} THEN 10 ELSE 7)

\* the store without its sunday records
WithoutSunday(db) ==
    [db EXCEPT !.records = {r \in db.records : r.service_type # "sunday"}]

\* the offering and decisions accumulators of the groups of with equal those
\* of without, a group missing from without counting as zero
SameOfferings(with, without) ==
    \A k \in DOMAIN with :
        /\ with[k].offering
              = (IF k \in DOMAIN without THEN without[k].offering ELSE 0)
        /\ with[k].decisions
              = (IF k \in DOMAIN without THEN without[k].decisions ELSE 0)

\* the buckets of a trends list as a dict
ByDate(list) ==
    [d \in {list[i].date : i \in DOMAIN list} |->
        list[CHOOSE i \in DOMAIN list : list[i].date = d]]

InvalidSubmission(data) ==
    \/ ~Has(data, "leader_id")
    \/ ~Has(data, "service_type")
    \/ ~Has(data, "service_date")
    \/ ~CanParseDate(data.service_date)

\* C11: in a logged-in session, a submission whose body lacks leader_id,
\* service_type or service_date, or whose service_date does not parse, is
\* answered 400 with success false and the record set is unchanged.
InvalidSubmissionRejected ==
    [][(logged_in /\ last'.op = "submit_totals"
            /\ InvalidSubmission(last'.arg))
          => /\ last'.status = 400
             /\ ~last'.success
             /\ records' = records]_vars

\* a submission with a date in another format was rejected over a store
\* that holds a record
SubmissionRejectedForDate ==
    /\ logged_in
    /\ last.op = "submit_totals"
    /\ last.status = 400
    /\ Has(last.arg, "service_date")
    /\ last.arg.service_date = "04/01/2024"
    /\ records # {}

(***************************************************************************)
(* Leaders and their pictures in a logged-in session: two leaders, the     *)
(* first with a service record, each with or without a stored picture.     *)
(***************************************************************************)
FirstPicture(id) == "leader_" \o ToString(id) \o "_1704000000.jpg"

PictureChoices(id) == {None, FirstPicture(id)}

InitLeaders ==
    \E p1 \in PictureChoices(1), p2 \in PictureChoices(2) :
        /\ leaders =
              {[AnalyticsLeader(1, "Leader 1", "Chestnut")
                   EXCEPT !.profile_picture = p1],
               [AnalyticsLeader(2, "Leader 2", "KB South")
                   EXCEPT !.profile_picture = p2]}
        /\ files = {p1, p2} \ {None}
        /\ records =
              {AnalyticsRecord(1, 1, "cell", "2024-01-04", 0, 0, 20, 3, 7, 2)}
        /\ logged_in = TRUE
        /\ clock = 0
        /\ backup = NoFile
        /\ backupOf = EmptyStore
        /\ requests = <<>>
        /\ last = [op |-> "login", arg |-> "", doc |-> "", status |-> 302,
                   success |-> TRUE, note |-> ""]

PictureLeaderIds == {1, 2}

NextLeaders ==
    \/ Tick
    \/ DeleteLeaderOf(PictureLeaderIds)
    \/ UploadPictureOf(PictureLeaderIds)
    \/ RemovePictureOf(PictureLeaderIds)

SpecLeaders == InitLeaders /\ [][NextLeaders]_vars

PictureFilesExist ==
    \A l \in leaders : Truthy(l.profile_picture) => l.profile_picture \in files

(***************************************************************************)
(* Submissions and the overview in a logged-in session with one leader.    *)
(***************************************************************************)
MaxSubmitted == 2    \* records the submissions of this specification add

\* bodies submit_totals accepts: the two of SubmitBodies, a cell meeting of
\* a month ago, one of tomorrow, one of a leader that does not exist and a
\* service of another type
AcceptedBodies ==
    {CellBody, SundayBody,
     [CellBody EXCEPT !.service_date = "2023-12-20", !.cell_offering = 2],
     [CellBody EXCEPT !.service_date = "2024-01-09"],
     [CellBody EXCEPT !.leader_id = 9],
     [CellBody EXCEPT !.service_type = "midweek"]}

SubmissionBodies == AcceptedBodies \cup {Drop(CellBody, "service_date")}

InitSubmit ==
    /\ leaders = {AnalyticsLeader(1, "Leader 1", "Chestnut")}
    /\ records = {}
    /\ files = {}
    /\ logged_in = TRUE
    /\ clock = 0
    /\ backup = NoFile
    /\ backupOf = EmptyStore
    /\ requests = <<>>
    /\ last = [op |-> "login", arg |-> "", doc |-> "", status |-> 302,
               success |-> TRUE, note |-> ""]

NextSubmit ==
    \/ Tick
    \/ SubmitTotalsOf(SubmissionBodies, MaxSubmitted)
    \/ AnalyticsOverviewOf({""}, {""})

SpecSubmit == InitSubmit /\ [][NextSubmit]_vars

\* the record a step of submit_totals added
Submitted(before, after) == CHOOSE r \in after \ before : TRUE

\* the record's service_date lies in the window of the period
InWindow(r, period, today) ==
    /\ Ordinal(r.service_date) >= StartOrdinal(period, today)
    /\ Ordinal(r.service_date) <= Ordinal(today)

\* the unfiltered overview after is the overview before with record r added:
\* one more record, one more service of its type, and its effective metrics
\* added to the totals, the offering in floating point
ReflectedIn(r, before, after) ==
    LET sunday == r.service_type = "sunday"
    IN  /\ after.total_records = before.total_records + 1
        /\ after.sunday_services
              = before.sunday_services + (IF sunday THEN 1 ELSE 0)
        /\ after.cell_meetings
              = before.cell_meetings + (IF sunday THEN 0 ELSE 1)
        /\ after.total_attendance
              = before.total_attendance
                  + (IF sunday THEN r.sunday_attendance ELSE r.cell_attendance)
        /\ after.total_visitors
              = before.total_visitors
                  + (IF sunday THEN r.sunday_visitors ELSE r.cell_visitors)
        /\ after.total_offering
              = FAdd(before.total_offering,
                     IF sunday THEN 0 ELSE r.cell_offering)
        /\ after.total_decisions
              = before.total_decisions
                  + (IF sunday THEN 0 ELSE r.cell_decisions)

\* the record names a leader of the store and one of the two service types
KnownSubmission(r) ==
    /\ Found(store, r.leader_id)
    /\ r.service_type \in {"sunday", "cell"}

\* every submission whose date lies in a period's window is reflected in that
\* period's unfiltered overview: every one when any holds, otherwise those of
\* KnownSubmission
SubmissionsReflected(any) ==
    (last'.op = "submit_totals" /\ last'.success /\ records' # records) =>
        LET r == Submitted(records, records')
            today == Now(clock).date
        IN  \A period \in Periods :
                ((any \/ KnownSubmission(r)) /\ InWindow(r, period, today)) =>
                    ReflectedIn(r,
                        analytics_overview(store, period, "", "", today),
                        analytics_overview([leaders |-> leaders',
                                            records |-> records'],
                                           period, "", "", today))

\* C13: after a successful submission of a record dated in a period's
\* window, the unfiltered overview of the period counts one more record and
\* one more service of the record's type, and its totals have grown by the
\* record's effective metrics.
SubmissionReflectedInOverview ==
    [][SubmissionsReflected(TRUE)]_vars

\* the same for the submissions of an existing leader with service type
\* "sunday" or "cell"
KnownLeaderSubmissionReflected ==
    [][SubmissionsReflected(FALSE)]_vars

TimestampKeys == {"created_at", "updated_at", "submitted_at"}

\* the row holds the value the payload entry gives under key k: a timestamp
\* and a date as the instant the text names, any other value as it is
HoldsValue(row, e, k) ==
    IF k \in TimestampKeys
    THEN e[k] # None => IsoFormat(row[k]) = e[k]
    ELSE IF k = "service_date" THEN DateStr(row[k]) = e[k]
    ELSE row[k] = e[k]

\* the rows are those of the payload entries: the same identities, and each
\* row holds what its entry gives under the keys the entry has among keys
RowsOfPayload(rows, entries, keys) ==
    /\ {r.id : r \in rows} = {entries[i].id : i \in DOMAIN entries}
    /\ Cardinality(rows) = Len(entries)
    /\ \A i \in DOMAIN entries : \E r \in rows :
          /\ r.id = entries[i].id
          /\ \A k \in DOMAIN entries[i] \cap keys : HoldsValue(r, entries[i], k)

LeaderKeys ==
    {"id", "name", "zone", "cell_day", "contact_number", "email", "address",
     "profile_picture", "is_active", "created_at", "updated_at"}

RecordKeys ==
    {"id", "leader_id", "service_type", "service_date", "sunday_attendance",
     "sunday_visitors", "cell_attendance", "cell_visitors", "cell_offering",
     "cell_decisions", "notes", "submitted_at"}

\* after a successful restore the store holds the payload's rows, compared
\* under the given keys
RestoredIsPayload(leader_keys, record_keys) ==
    (last.op = "restore_data" /\ last.success) =>
        LET data == last.doc.file.data
        IN  /\ RowsOfPayload(leaders, Get(data, "leaders", <<>>), leader_keys)
            /\ RowsOfPayload(records, Get(data, "service_records", <<>>),
                             record_keys)

\* C14: after a successful restore the store holds exactly the payload's
\* leaders and service records, with their identities and timestamps, and
\* nothing else.
RestoreReplacesStore == RestoredIsPayload(LeaderKeys, RecordKeys)

\* the same without cell_day, the one column of the payloads here that
\* holds null and has a column default
RestoreReplacesStoreButCellDay ==
    RestoredIsPayload(LeaderKeys \ {"cell_day"}, RecordKeys)

\* the first day of the bucket a trend key names
BucketStart(key) == ParseDate(IF Len(key) = 7 THEN key \o "-01" ELSE key)

\* C15: the trend buckets come in strictly ascending order of their keys,
\* every key of a selected record appears exactly once, and the order of the
\* keys as strings is the order of the buckets in time.
TrendsSortedByKey ==
    last.op = "analytics_trends" =>
        /\ \A i, j \in DOMAIN last.doc :
              i < j => /\ StrLess(last.doc[i].date, last.doc[j].date)
                       /\ Ordinal(BucketStart(last.doc[i].date))
                             < Ordinal(BucketStart(last.doc[j].date))
        /\ \A n \in DOMAIN RowsOfLast :
              Cardinality({i \in DOMAIN last.doc :
                              last.doc[i].date
                                 = date_key(last.arg.period, RowsOfLast[n])})
                 = 1

\* monthly buckets of two years
TrendsAcrossYears ==
    /\ last.op = "analytics_trends"
    /\ last.arg.period = "year"
    /\ \E i, j \in DOMAIN last.doc :
          /\ SubSeq(last.doc[i].date, 1, 4) = "2023"
          /\ SubSeq(last.doc[j].date, 1, 4) = "2024"

\* the length in days of the window of a period token
WindowDays(period) ==
    CASE period = "week" -> 7 [] period = "month" -> 30 [] OTHER -> 365

\* the records of the store dated within the window of the last request that
\* pass its zone and leader filters
RecordsInWindow ==
    {r \in records :
        LET age == Ordinal(Now(clock).date) - Ordinal(r.service_date)
        IN  /\ 0 <= age /\ age <= WindowDays(last.arg.period)
            /\ last.arg.zone # "" =>
                  \E l \in leaders :
                      l.id = r.leader_id /\ l.zone = last.arg.zone
            /\ last.arg.leader_id # "" =>
                  ToString(r.leader_id) = last.arg.leader_id}

RECURSIVE AttendanceOf(_)
\* the effective attendance of a set of records
AttendanceOf(rs) ==
    IF rs = {} THEN 0
    ELSE LET r == CHOOSE x \in rs : TRUE
         IN  (IF r.service_type = "sunday"
              THEN r.sunday_attendance ELSE r.cell_attendance)
                + AttendanceOf(rs \ {r})

\* the last overview counts exactly the records of rs
OverviewCounts(rs) ==
    /\ last.doc.total_records = Cardinality(rs)
    /\ last.doc.total_attendance = AttendanceOf(rs)

\* C16: the overview selects exactly the records dated from the start of the
\* period's window to today, both days included, that pass the zone and
\* leader filters given; the window is 7, 30 or 365 days, 365 for a token
\* that is none of week, month and year.
OverviewSelectsWindow ==
    last.op = "analytics_overview" => OverviewCounts(RecordsInWindow)

\* the same over the records whose leader_id names a leader of the store
OverviewSelectsJoinedWindow ==
    last.op = "analytics_overview" =>
        OverviewCounts({r \in RecordsInWindow :
                           \E l \in leaders : l.id = r.leader_id})

\* C19: in every overview the sunday services and the cell meetings add up
\* to the number of records selected.
ServiceCountsAddUp ==
    last.op = "analytics_overview" =>
        last.doc.sunday_services + last.doc.cell_meetings
            = last.doc.total_records

\* the same while every record of the store is a sunday or a cell record
KnownServiceCountsAddUp ==
    (/\ last.op = "analytics_overview"
     /\ \A r \in records : r.service_type \in {"sunday", "cell"})
        => last.doc.sunday_services + last.doc.cell_meetings
              = last.doc.total_records

(***************************************************************************)
(* Two submit_totals requests served side by side.  Each is served by a    *)
(* thread with a database session of its own; the SQLite file admits one   *)
(* writing transaction at a time.                                          *)
(***************************************************************************)
Clients == {1, 2}

ConcurrentBodies ==
    {CellBody, SundayBody, [CellBody EXCEPT !.service_type = None],
     Drop(CellBody, "service_date")}

\* the record the store holds before the two requests arrive
StoredBefore == {AnalyticsRecord(1, 1, "cell", "2024-01-01", 0, 0, 9, 1, 3, 1)}

InitConcurrent ==
    /\ leaders = {AnalyticsLeader(1, "Leader 1", "Chestnut")}
    /\ records = StoredBefore
    /\ files = {}
    /\ logged_in = TRUE
    /\ clock = 0
    /\ backup = NoFile
    /\ backupOf = EmptyStore
    /\ last = [op |-> "login", arg |-> "", doc |-> "", status |-> 302,
               success |-> TRUE, note |-> ""]
    /\ requests \in [Clients -> {[pc |-> "received", data |-> d, row |-> None,
                                  status |-> 0] : d \in ConcurrentBodies}]

\* request p moves to pc with its pending row and status
Proceed(p, pc, row, status) ==
    requests' = [requests EXCEPT ![p] = [pc |-> pc, data |-> requests[p].data,
                                         row |-> row, status |-> status]]

\* the try block up to db.session.add: the record is built from the body and
\* made pending in the request's own session
Build(p) ==
    /\ requests[p].pc = "received"
    /\ IF SubmitBodyOk(requests[p].data)
       THEN Proceed(p, "pending", SubmittedRecord(requests[p].data), 0)
       ELSE Proceed(p, "done", None, 400)
    /\ UNCHANGED <<leaders, records, files, logged_in, clock, backup,
                   backupOf, last>>

\* a writing transaction always starts, whoever else is writing
CanWriteUnlocked(p) == TRUE

\* no other request holds the write lock of the database file
CanWrite(p) == \A q \in Clients \ {p} : requests[q].pc # "flushed"

\* db.session.commit(), first half: the flush takes the write lock and
\* inserts the pending row, which is given its id and submitted_at
Flush(p) ==
    /\ requests[p].pc = "pending"
    /\ CanWrite(p)
    /\ LET row == InsertRecord(requests[p].row, records, Now(clock))
       IN  IF RecordNotNull(row)
           THEN Proceed(p, "flushed", row, 0)
           ELSE Proceed(p, "done", None, 400)
    /\ UNCHANGED <<leaders, records, files, logged_in, clock, backup,
                   backupOf, last>>

\* the request waited for the write lock longer than the busy timeout: the
\* flush raises, the except branch rolls back and answers 400
Busy(p) ==
    /\ requests[p].pc = "pending"
    /\ ~CanWrite(p)
    /\ Proceed(p, "done", None, 400)
    /\ UNCHANGED <<leaders, records, files, logged_in, clock, backup,
                   backupOf, last>>

\* db.session.commit(), second half: the transaction commits and releases
\* the lock, or fails and is rolled back
CommitInsert(p) ==
    /\ requests[p].pc = "flushed"
    /\ \E fault \in BOOLEAN :
          IF fault
          THEN /\ Proceed(p, "done", None, 400)
               /\ UNCHANGED records
          ELSE /\ Proceed(p, "done", requests[p].row, 200)
               /\ records' = records \cup {requests[p].row}
    /\ UNCHANGED <<leaders, files, logged_in, clock, backup, backupOf, last>>

NextConcurrent ==
    \/ Tick
    \/ \E p \in Clients : Build(p)
    \/ \E p \in Clients : Flush(p)
    \/ \E p \in Clients : Busy(p)
    \/ \E p \in Clients : CommitInsert(p)

SpecConcurrent == InitConcurrent /\ [][NextConcurrent]_vars

\* both requests have been answered with success
BothSubmitted ==
    \A p \in Clients : requests[p].pc = "done" /\ requests[p].status = 200

\* the records StoredBefore holds after the requests of the clients in order
\* were served one after the other
RECURSIVE Sequential(_, _)
Sequential(order, rows) ==
    IF order = <<>> THEN rows
    ELSE Sequential(Tail(order),
                    submit_totals([leaders |-> leaders, records |-> rows],
                                  files, requests[Head(order)].data,
                                  Now(clock), FALSE).store.records)

\* the rows without the time of their insertion
Untimed(rows) == {[r EXCEPT !.submitted_at = NoTime] : r \in rows}

\* the rows without their id and the time of their insertion
Contents(rows) == {[r EXCEPT !.id = NoId, !.submitted_at = NoTime] : r \in rows}

\* C17: when two submit_totals requests served side by side both succeed,
\* both records are stored under distinct ids beside what was stored before,
\* and the record contents are those either sequential order gives.
ConcurrentSubmissionsIndependent ==
    BothSubmitted =>
        /\ requests[1].row.id # requests[2].row.id
        /\ records = StoredBefore \cup {requests[1].row, requests[2].row}
        /\ Cardinality(records) = Cardinality(StoredBefore) + 2
        /\ Cardinality({r.id : r \in records}) = Cardinality(records)
        /\ Contents(records) = Contents(Sequential(<<1, 2>>, StoredBefore))
        /\ Contents(records) = Contents(Sequential(<<2, 1>>, StoredBefore))
        /\ Untimed(records) \in {Untimed(Sequential(<<1, 2>>, StoredBefore)),
                                 Untimed(Sequential(<<2, 1>>, StoredBefore))}

\* a sunday and a cell submission both succeeded, the second client's
\* inserted first
SecondClientInsertedFirst ==
    /\ BothSubmitted
    /\ requests[1].data.service_type # requests[2].data.service_type
    /\ requests[2].row.id < requests[1].row.id

====
